---- MODULE Spec2Model ----
(***************************************************************************)
(* EEG-Chess (src/chessbci.py): the click-to-move input state machine, the *)
(* restart control, the opponent stub and the main loop, over a model of   *)
(* the rules engine (python-chess Board) the program delegates to.         *)
(***************************************************************************)
EXTENDS Integers, Sequences, FiniteSets, TLC

VARIABLES
    board,            \* the chess.Board object of main()
    selected_square,  \* main(): selected_square (None or a square 0..63)
    legal_targets,    \* main(): legal_targets (a list of squares)
    SQUARE_SIZE,      \* module global, set by update_layout
    BOARD_PIXEL_SIZE, \* module global, set by update_layout
    BOARD_OFFSET_X,   \* module global, set by update_layout
    BOARD_OFFSET_Y,   \* module global, set by update_layout
    BLACK_IS_AI,      \* module configuration flag
    pc,               \* position of main()'s loop body
    last_op,          \* the branch of the loop body taken by the last step
    clicked,          \* what the pixel of the last click lay on
    human_moves,      \* moves pushed by handle_click in the current frame
    ai_moves,         \* moves pushed by the opponent stub in the current frame
    played,           \* moves pushed since the first modelled state
    clicked_piece,    \* the piece of the side to move handle_click was last called on
    aimed,            \* handle_click was last called, with a piece selected, on a
                      \* square that is empty or holds a piece of the other side
    fn_input,         \* the call made when one function is applied on its own
    fn_output         \* the value that call returned

vars == <<board, selected_square, legal_targets, SQUARE_SIZE, BOARD_PIXEL_SIZE,
          BOARD_OFFSET_X, BOARD_OFFSET_Y, BLACK_IS_AI, pc, last_op,
          clicked, human_moves, ai_moves, played, clicked_piece,
          aimed, fn_input, fn_output>>

----------------------------------------------------------------------------
(* Bounds of the model. *)

\* handle_click is explored while fewer than MaxPlayed moves have been pushed,
\* and the loop until more than MaxPlayed moves have been pushed
MaxPlayed == 1

\* update_layout is applied on its own to the window heights 1 .. MaxHeight
\* and widths 0 .. MaxWidth, and to the default window
MaxHeight == 20
MaxWidth == 1

----------------------------------------------------------------------------
(* Program constants. *)

BOARD_SIZE == 8
DEFAULT_WINDOW_HEIGHT == 720
DEFAULT_WINDOW_WIDTH == (DEFAULT_WINDOW_HEIGHT * 16) \div 9
\* BOARD_HEIGHT_RATIO = 0.9, as the fraction 9 / 10
BOARD_HEIGHT_RATIO_NUM == 9
BOARD_HEIGHT_RATIO_DEN == 10
\* get_restart_button_rect: size of the button and its margins
BUTTON_WIDTH == 150
BUTTON_HEIGHT == 40
BUTTON_MARGIN_X == 20
BUTTON_MARGIN_Y == 60

\* Python's None, for selected_square
None == -1

----------------------------------------------------------------------------
(* The rules engine: squares, pieces and moves of python-chess.             *)

WHITE == TRUE
BLACK == FALSE

PAWN == "p"
KNIGHT == "n"
BISHOP == "b"
ROOK == "r"
QUEEN == "q"
KING == "k"
\* Move.promotion when the move does not promote
NoPromotion == "-"

SQUARES == 0 .. 63

square_file(sq) == sq % 8
square_rank(sq) == sq \div 8
square(file, rank) == rank * 8 + file

Abs(x) == IF x < 0 THEN -x ELSE x
Sign(x) == IF x < 0 THEN -1 ELSE IF x > 0 THEN 1 ELSE 0
Max2(a, b) == IF a >= b THEN a ELSE b

FileDist(s, t) == Abs(square_file(s) - square_file(t))
RankDist(s, t) == Abs(square_rank(s) - square_rank(t))

Piece(pt, c) == [piece_type |-> pt, color |-> c]
Move(f, t, p) == [from_square |-> f, to_square |-> t, promotion |-> p]

\* squares strictly between two squares of one rank, file or diagonal
Between(s, t) ==
    LET df == Sign(square_file(t) - square_file(s))
        dr == Sign(square_rank(t) - square_rank(s))
        n == Max2(FileDist(s, t), RankDist(s, t))
    IN { square(square_file(s) + i * df, square_rank(s) + i * dr) : i \in 1 .. (n - 1) }

\* the piece standing on s attacks square t (pieces: occupied square -> piece)
Attacks(pieces, s, t) ==
    LET p == pieces[s]
        fd == FileDist(s, t)
        rd == RankDist(s, t)
        clear == Between(s, t) \cap DOMAIN pieces = {}
    IN /\ s # t
       /\ CASE p.piece_type = PAWN ->
                 /\ fd = 1
                 /\ square_rank(t) = square_rank(s) + (IF p.color = WHITE THEN 1 ELSE -1)
            [] p.piece_type = KNIGHT -> {fd, rd} = {1, 2}
            [] p.piece_type = KING -> Max2(fd, rd) = 1
            [] p.piece_type = BISHOP -> fd = rd /\ clear
            [] p.piece_type = ROOK -> (fd = 0 \/ rd = 0) /\ clear
            [] p.piece_type = QUEEN -> (fd = 0 \/ rd = 0 \/ fd = rd) /\ clear

is_attacked_by(pieces, color, t) ==
    \E s \in DOMAIN pieces : pieces[s].color = color /\ Attacks(pieces, s, t)

KingSquares(pieces, color) ==
    { s \in DOMAIN pieces : pieces[s] = Piece(KING, color) }

\* the side `color` has its king attacked
InCheck(pieces, color) ==
    \E k \in KingSquares(pieces, color) : is_attacked_by(pieces, ~color, k)

is_check(b) == InCheck(b.pieces, b.turn)

\* Board.piece_at(sq) is not None
HasPiece(b, sq) == sq \in DOMAIN b.pieces
piece_at(b, sq) == b.pieces[sq]

Restrict(f, S) == [x \in S |-> f[x]]

BackRank(color) == IF color = WHITE THEN 0 ELSE 7
PromotionRank(color) == IF color = WHITE THEN 7 ELSE 0
PawnStartRank(color) == IF color = WHITE THEN 1 ELSE 6
Forward(color) == IF color = WHITE THEN 8 ELSE -8

\* a king move onto its own rook, or two files sideways from its home
\* square, is a castling move
IsCastling(b, m) ==
    /\ HasPiece(b, m.from_square)
    /\ piece_at(b, m.from_square).piece_type = KING
    /\ \/ FileDist(m.from_square, m.to_square) > 1
       \/ /\ HasPiece(b, m.to_square)
          /\ piece_at(b, m.to_square) = Piece(ROOK, b.turn)

\* the rook square a castling move uses
CastlingRook(m) ==
    IF square_file(m.to_square) > square_file(m.from_square)
    THEN square(7, square_rank(m.from_square))
    ELSE square(0, square_rank(m.from_square))

IsEnPassant(b, m) ==
    /\ HasPiece(b, m.from_square)
    /\ piece_at(b, m.from_square).piece_type = PAWN
    /\ m.to_square = b.ep_square
    /\ FileDist(m.from_square, m.to_square) = 1
    /\ ~HasPiece(b, m.to_square)

\* the piece placement after a move (Board.push, the placement part)
PiecesAfter(b, m) ==
    LET p == piece_at(b, m.from_square)
        placed == IF m.promotion # NoPromotion THEN Piece(m.promotion, p.color) ELSE p
    IN IF IsCastling(b, m)
       THEN LET r == CastlingRook(m)
                kside == square_file(r) = 7
                kto == square(IF kside THEN 6 ELSE 2, square_rank(m.from_square))
                rto == square(IF kside THEN 5 ELSE 3, square_rank(m.from_square))
                keep == DOMAIN b.pieces \ {m.from_square, r}
            IN [s \in keep \cup {kto, rto} |->
                   IF s = kto THEN p
                   ELSE IF s = rto THEN Piece(ROOK, p.color)
                   ELSE b.pieces[s]]
       ELSE LET gone == IF IsEnPassant(b, m)
                        THEN {m.from_square, m.to_square - Forward(p.color)}
                        ELSE {m.from_square}
            IN [s \in (DOMAIN b.pieces \ gone) \cup {m.to_square} |->
                   IF s = m.to_square THEN placed ELSE b.pieces[s]]

\* a set of squares as the list python-chess's scan_reversed yields: descending
RECURSIVE scan_reversed(_)
scan_reversed(S) ==
    IF S = {} THEN <<>>
    ELSE LET m == CHOOSE x \in S : \A y \in S : y <= x
         IN <<m>> \o scan_reversed(S \ {m})

Range(seq) == { seq[i] : i \in 1 .. Len(seq) }

RECURSIVE Concat(_)
Concat(seqs) == IF seqs = <<>> THEN <<>> ELSE Head(seqs) \o Concat(Tail(seqs))

\* Board.clean_castling_rights: rook squares whose rook and king are at home
clean_castling_rights(b) ==
    { r \in b.castling_rights :
        /\ r \in DOMAIN b.pieces
        /\ b.pieces[r].piece_type = ROOK
        /\ square_rank(r) = BackRank(b.pieces[r].color)
        /\ square(4, square_rank(r)) \in KingSquares(b.pieces, b.pieces[r].color) }

\* Board.generate_castling_moves for the king on s: king side, then queen side
CastlingMoves(b, s) ==
    LET c == b.turn
        home == square(4, BackRank(c))
        noking == Restrict(b.pieces, DOMAIN b.pieces \ {s})
        ok(r) ==
            LET kto == square(IF square_file(r) = 7 THEN 6 ELSE 2, BackRank(c))
                m == Move(s, kto, NoPromotion)
            IN /\ s = home
               /\ r \in clean_castling_rights(b)
               /\ b.pieces[r].color = c
               /\ Between(s, r) \cap DOMAIN b.pieces = {}
               /\ \A q \in {s} \cup Between(s, kto) : ~is_attacked_by(noking, ~c, q)
               /\ ~is_attacked_by(PiecesAfter(b, m), ~c, kto)
        one(r) ==
            IF ok(r)
            THEN << Move(s, square(IF square_file(r) = 7 THEN 6 ELSE 2, BackRank(c)),
                         NoPromotion) >>
            ELSE <<>>
    IN one(square(7, BackRank(c))) \o one(square(0, BackRank(c)))

\* the moves of a pawn to t: four promotions on the last rank, else one move
PawnMovesTo(c, s, t) ==
    IF square_rank(t) = PromotionRank(c)
    THEN << Move(s, t, QUEEN), Move(s, t, ROOK), Move(s, t, BISHOP), Move(s, t, KNIGHT) >>
    ELSE << Move(s, t, NoPromotion) >>

\* Board.generate_pseudo_legal_moves restricted to the piece on s, in the
\* order python-chess yields them
PseudoLegalFrom(b, s) ==
    LET p == b.pieces[s]
        c == p.color
        occ == DOMAIN b.pieces
    IN IF p.piece_type # PAWN
       THEN LET targets == { t \in SQUARES :
                               /\ Attacks(b.pieces, s, t)
                               /\ ~(t \in occ /\ b.pieces[t].color = c) }
                plain == scan_reversed(targets)
            IN [i \in 1 .. Len(plain) |-> Move(s, plain[i], NoPromotion)]
               \o (IF p.piece_type = KING THEN CastlingMoves(b, s) ELSE <<>>)
       ELSE LET one == s + Forward(c)
                two == s + 2 * Forward(c)
                captures == scan_reversed({ t \in occ :
                               Attacks(b.pieces, s, t) /\ b.pieces[t].color # c })
                single == IF one \in SQUARES /\ one \notin occ THEN <<one>> ELSE <<>>
                double == IF /\ square_rank(s) = PawnStartRank(c)
                             /\ single # <<>>
                             /\ two \notin occ
                          THEN <<two>> ELSE <<>>
                ep == IF /\ b.ep_square # None
                         /\ b.ep_square \notin occ
                         /\ square_rank(s) = (IF c = WHITE THEN 4 ELSE 3)
                         /\ Attacks(b.pieces, s, b.ep_square)
                      THEN <<b.ep_square>> ELSE <<>>
                tos == captures \o single \o double \o ep
            IN Concat([i \in 1 .. Len(tos) |-> PawnMovesTo(c, s, tos[i])])

\* Board._is_safe / is_into_check: the mover's king is not left attacked
IsSafe(b, m) == ~InCheck(PiecesAfter(b, m), b.turn)

\* list(board.legal_moves) restricted to from_square = s, in enumeration order
LegalMovesFrom(b, s) ==
    IF s \in DOMAIN b.pieces /\ b.pieces[s].color = b.turn
    THEN SelectSeq(PseudoLegalFrom(b, s), LAMBDA m : IsSafe(b, m))
    ELSE <<>>

\* board.legal_moves, as the set of moves it enumerates
legal_moves(b) ==
    UNION { Range(LegalMovesFrom(b, s)) : s \in DOMAIN b.pieces }

\* Board._from_chess960: in standard chess a king move from its home square
\* onto a corner of its back rank is read as the castling move to that side
from_chess960(b, m) ==
    IF /\ m.promotion = NoPromotion
       /\ HasPiece(b, m.from_square)
       /\ piece_at(b, m.from_square).piece_type = KING
       /\ m.from_square = square(4, BackRank(piece_at(b, m.from_square).color))
       /\ m.to_square \in {square(7, square_rank(m.from_square)),
                           square(0, square_rank(m.from_square))}
    THEN Move(m.from_square,
              square(IF square_file(m.to_square) = 7 THEN 6 ELSE 2,
                     square_rank(m.from_square)),
              NoPromotion)
    ELSE m

\* Board.is_pseudo_legal(move)
is_pseudo_legal(b, m) ==
    /\ HasPiece(b, m.from_square)
    /\ piece_at(b, m.from_square).color = b.turn
    /\ m.promotion # NoPromotion =>
          /\ piece_at(b, m.from_square).piece_type = PAWN
          /\ square_rank(m.to_square) = PromotionRank(b.turn)
    /\ \/ /\ piece_at(b, m.from_square).piece_type = KING
          /\ from_chess960(b, m) \in Range(CastlingMoves(b, m.from_square))
       \/ /\ ~(HasPiece(b, m.to_square) /\ piece_at(b, m.to_square).color = b.turn)
          /\ IF piece_at(b, m.from_square).piece_type = PAWN
             THEN m \in Range(PseudoLegalFrom(b, m.from_square))
             ELSE Attacks(b.pieces, m.from_square, m.to_square)

\* is_legal without the test for moving into check; C6 fails on it
IsLegalIgnoringCheck(b, m) == is_pseudo_legal(b, m)

\* `move in board.legal_moves` (Board.is_legal): pseudo-legal and not into
\* check; a king move onto its own rook counts as the castling move
is_legal(b, m) == is_pseudo_legal(b, m) /\ IsSafe(b, m)

\* Board.is_zeroing: a pawn moves or an opposing piece is captured
is_zeroing(b, m) ==
    \/ piece_at(b, m.from_square).piece_type = PAWN
    \/ /\ HasPiece(b, m.to_square)
       /\ piece_at(b, m.to_square).color # b.turn

\* Board.push(move)
push(b, m) ==
    LET p == piece_at(b, m.from_square)
        double == /\ p.piece_type = PAWN
                  /\ RankDist(m.from_square, m.to_square) = 2
                  /\ square_rank(m.from_square) = PawnStartRank(p.color)
        rights == clean_castling_rights(b) \ {m.from_square, m.to_square}
    IN [ pieces |-> PiecesAfter(b, m),
         turn |-> ~b.turn,
         castling_rights |->
             IF p.piece_type = KING
             THEN { r \in rights : square_rank(r) # BackRank(b.turn) }
             ELSE rights,
         ep_square |-> IF double THEN m.from_square + Forward(p.color) ELSE None,
         halfmove_clock |-> IF is_zeroing(b, m) THEN 0 ELSE b.halfmove_clock + 1 ]

IsDark(sq) == (square_file(sq) + square_rank(sq)) % 2 = 0

\* Board.has_insufficient_material(color)
has_insufficient_material(b, color) ==
    LET own == { s \in DOMAIN b.pieces : b.pieces[s].color = color }
        other == DOMAIN b.pieces \ own
        of(S, types) == { s \in S : b.pieces[s].piece_type \in types }
        bishops == of(DOMAIN b.pieces, {BISHOP})
    IN IF of(own, {PAWN, ROOK, QUEEN}) # {} THEN FALSE
       ELSE IF of(own, {KNIGHT}) # {}
       THEN Cardinality(own) <= 2 /\ of(other, {PAWN, KNIGHT, BISHOP, ROOK}) = {}
       ELSE IF of(own, {BISHOP}) # {}
       THEN /\ \/ \A s \in bishops : IsDark(s)
               \/ \A s \in bishops : ~IsDark(s)
            /\ of(DOMAIN b.pieces, {PAWN, KNIGHT}) = {}
       ELSE TRUE

is_insufficient_material(b) ==
    has_insufficient_material(b, WHITE) /\ has_insufficient_material(b, BLACK)

\* Board.is_seventyfive_moves: 150 half-moves without a pawn move or capture
SeventyFiveMoveClock == 150

\* Board.is_game_over(): checkmate, stalemate, insufficient material or the
\* seventy-five-move rule (fivefold repetition needs a longer game than the
\* model's bound on pushed moves allows)
is_game_over(b) ==
    \/ \A s \in DOMAIN b.pieces : LegalMovesFrom(b, s) = <<>>
    \/ is_insufficient_material(b)
    \/ b.halfmove_clock >= SeventyFiveMoveClock

\* Board.reset() / chess.Board(): the standard starting position
BackRow == <<ROOK, KNIGHT, BISHOP, QUEEN, KING, BISHOP, KNIGHT, ROOK>>

StartingPieces ==
    [s \in (0 .. 15) \cup (48 .. 63) |->
        IF square_rank(s) = 0 THEN Piece(BackRow[square_file(s) + 1], WHITE)
        ELSE IF square_rank(s) = 1 THEN Piece(PAWN, WHITE)
        ELSE IF square_rank(s) = 6 THEN Piece(PAWN, BLACK)
        ELSE Piece(BackRow[square_file(s) + 1], BLACK)]

StartingBoard ==
    [ pieces |-> StartingPieces,
      turn |-> WHITE,
      castling_rights |-> {0, 7, 56, 63},
      ep_square |-> None,
      halfmove_clock |-> 0 ]

----------------------------------------------------------------------------
(* Layout and hit testing.                                                  *)

\* Python's int(): truncation toward zero of height * 0.9
IntRatio(height) ==
    IF height >= 0
    THEN (height * BOARD_HEIGHT_RATIO_NUM) \div BOARD_HEIGHT_RATIO_DEN
    ELSE -(((-height) * BOARD_HEIGHT_RATIO_NUM) \div BOARD_HEIGHT_RATIO_DEN)

\* update_layout without the floor max(..., 1) of SQUARE_SIZE; C12 fails on it
UpdateLayoutWithoutFloor(width, height) ==
    LET sq == IntRatio(height) \div BOARD_SIZE
        bps == sq * BOARD_SIZE
    IN [ SQUARE_SIZE |-> sq,
         BOARD_PIXEL_SIZE |-> bps,
         BOARD_OFFSET_X |-> (width - bps) \div 2,
         BOARD_OFFSET_Y |-> (height - bps) \div 2 ]

\* update_layout(width, height): the four layout globals it assigns
update_layout(width, height) ==
    LET desired_board_side == IntRatio(height)
        sq == Max2(desired_board_side \div BOARD_SIZE, 1)
        bps == sq * BOARD_SIZE
    IN [ SQUARE_SIZE |-> sq,
         BOARD_PIXEL_SIZE |-> bps,
         BOARD_OFFSET_X |-> (width - bps) \div 2,
         BOARD_OFFSET_Y |-> (height - bps) \div 2 ]

\* coord_to_square without the flip of the rank; C11 fails on it
CoordToSquareUnflipped(file, rank) == square(file, rank)

\* coord_to_square(file, rank): screen row `rank` counts from the top
coord_to_square(file, rank) == square(file, 7 - rank)

\* square_to_coord(square)
square_to_coord(sq) == <<square_file(sq), 7 - square_rank(sq)>>

\* get_restart_button_rect(board_offset_x, board_offset_y)
get_restart_button_rect(board_offset_x, board_offset_y) ==
    [ x |-> board_offset_x - BUTTON_WIDTH - BUTTON_MARGIN_X,
      y |-> board_offset_y + BUTTON_MARGIN_Y,
      w |-> BUTTON_WIDTH,
      h |-> BUTTON_HEIGHT ]

\* pygame.Rect.collidepoint
collidepoint(rect, pos) ==
    /\ rect.x <= pos[1] /\ pos[1] < rect.x + rect.w
    /\ rect.y <= pos[2] /\ pos[2] < rect.y + rect.h

\* check_restart_button_click(mouse_pos, board), given what
\* board.is_game_over() returns
check_restart_button_click(mouse_pos, game_over) ==
    IF ~game_over THEN FALSE
    ELSE collidepoint(get_restart_button_rect(BOARD_OFFSET_X, BOARD_OFFSET_Y), mouse_pos)

\* the bounding-box test with the far edges included; C19 fails on it
InBoardAreaInclusive(pos) ==
    /\ BOARD_OFFSET_X <= pos[1] /\ pos[1] <= BOARD_OFFSET_X + BOARD_PIXEL_SIZE
    /\ BOARD_OFFSET_Y <= pos[2] /\ pos[2] <= BOARD_OFFSET_Y + BOARD_PIXEL_SIZE

\* handle_click: the bounding-box test of the board area
InBoardArea(pos) ==
    /\ BOARD_OFFSET_X <= pos[1] /\ pos[1] < BOARD_OFFSET_X + BOARD_PIXEL_SIZE
    /\ BOARD_OFFSET_Y <= pos[2] /\ pos[2] < BOARD_OFFSET_Y + BOARD_PIXEL_SIZE

\* handle_click: the square a pixel inside the board area maps to
ClickedSquare(pos) ==
    coord_to_square((pos[1] - BOARD_OFFSET_X) \div SQUARE_SIZE,
                    (pos[2] - BOARD_OFFSET_Y) \div SQUARE_SIZE)

----------------------------------------------------------------------------
(* The input state machine.                                                 *)

\* TargetsFrom over the moves that may leave the king in check; C14 fails on it
TargetsFromPseudoLegal(b, sq) ==
    LET ms == PseudoLegalFrom(b, sq)
    IN [i \in 1 .. Len(ms) |-> ms[i].to_square]

\* [m.to_square for m in board.legal_moves if m.from_square == clicked_square]
TargetsFrom(b, sq) ==
    LET ms == LegalMovesFrom(b, sq)
    IN [i \in 1 .. Len(ms) |-> ms[i].to_square]

\* CandidateMove with a knight as the promotion piece; C7 fails on it
CandidateMoveToKnight(b, sel, clicked_square) ==
    IF /\ HasPiece(b, sel)
       /\ piece_at(b, sel).piece_type = PAWN
       /\ square_rank(clicked_square) = PromotionRank(piece_at(b, sel).color)
    THEN Move(sel, clicked_square, KNIGHT)
    ELSE Move(sel, clicked_square, NoPromotion)

\* handle_click: the candidate move, promoting to a queen when a pawn is
\* sent to its last rank
CandidateMove(b, sel, clicked_square) ==
    IF /\ HasPiece(b, sel)
       /\ piece_at(b, sel).piece_type = PAWN
       /\ \/ piece_at(b, sel).color = WHITE /\ square_rank(clicked_square) = 7
          \/ piece_at(b, sel).color = BLACK /\ square_rank(clicked_square) = 0
    THEN Move(sel, clicked_square, QUEEN)
    ELSE Move(sel, clicked_square, NoPromotion)

Result(b, sel, targets, made, line) ==
    [ board |-> b, selected_square |-> sel, legal_targets |-> targets,
      move_made |-> made, line |-> line ]

\* handle_click, the outside-the-board return (line 312)
ReturnOutside(b, sel) == Result(b, sel, <<>>, FALSE, 312)

\* ReturnSelect selecting only from an empty selection (line 323); C15 fails
\* on it
ReturnSelectOnlyFirst(b, clicked_square, line) ==
    IF line = 323
    THEN Result(b, clicked_square, TargetsFrom(b, clicked_square), FALSE, line)
    ELSE Result(b, None, <<>>, FALSE, line)

\* ReturnClear keeping a selection on a1 when the selected square is clicked
\* (line 330); C16 fails on it
ReturnClearExceptDeselect(b, line) ==
    IF line = 330 THEN Result(b, 0, <<>>, FALSE, line)
    ELSE Result(b, None, <<>>, FALSE, line)

\* handle_click, a piece of the side to move is clicked (lines 323 and 352)
ReturnSelect(b, clicked_square, line) ==
    Result(b, clicked_square, TargetsFrom(b, clicked_square), FALSE, line)

\* ReturnClear with the selection put on a1; C8 fails on it
ReturnClearSelecting(b, line) == Result(b, 0, <<>>, FALSE, line)

\* handle_click, the cleared returns (lines 325, 330 and 354)
ReturnClear(b, line) == Result(b, None, <<>>, FALSE, line)

\* ReturnMove with the selection left on the square moved from; C2 fails on it
ReturnMoveKeepingSelection(b, move) ==
    Result(push(b, move), move.from_square, <<>>, TRUE, 346)

\* ReturnMove with the selection put on the square moved to; C18 fails on it
ReturnMoveSelectingTarget(b, move) ==
    Result(push(b, move), move.to_square, <<>>, TRUE, 346)

\* handle_click, the move is pushed (lines 345 and 346)
ReturnMove(b, move) == Result(push(b, move), None, <<>>, TRUE, 346)

\* OwnPiece without the test of the colour; C13 fails on it
AnyPiece(b, sq) == HasPiece(b, sq)

\* handle_click: piece is not None and piece.color == board.turn
OwnPiece(b, sq) == HasPiece(b, sq) /\ piece_at(b, sq).color = b.turn

\* handle_click(board, mouse_pos, selected_square): the board after the call,
\* the three values returned and the line of the return statement taken
handle_click(b, mouse_pos, sel) ==
    IF ~InBoardArea(mouse_pos) THEN ReturnOutside(b, sel)
    ELSE LET clicked_square == ClickedSquare(mouse_pos)
             own == OwnPiece(b, clicked_square)
         IN IF sel = None
            THEN IF own THEN ReturnSelect(b, clicked_square, 323)
                 ELSE ReturnClear(b, 325)
            ELSE IF clicked_square = sel THEN ReturnClear(b, 330)
            ELSE LET move == CandidateMove(b, sel, clicked_square)
                 IN IF is_legal(b, move) THEN ReturnMove(b, move)
                    ELSE IF own THEN ReturnSelect(b, clicked_square, 352)
                    ELSE ReturnClear(b, 354)

\* reset_game without board.reset(); C4 fails on it
ResetKeepingBoard(b) == Result(b, None, <<>>, FALSE, 214)

\* reset_game(board): board.reset() and the cleared selection
reset_game(b) == Result(StartingBoard, None, <<>>, FALSE, 214)

----------------------------------------------------------------------------
(* Positions the program is started from in the model: the standard         *)
(* starting position of chess.Board(), and positions of games in progress.  *)

Position(pieces, turn, rights, ep, clock) ==
    [ pieces |-> pieces, turn |-> turn, castling_rights |-> rights,
      ep_square |-> ep, halfmove_clock |-> clock ]

\* white: Kg6, Pe7; black: Kg8, Pb2.  e7-e8 promotes and mates; b2-b1 promotes
PromotionPieces ==
    (46 :> Piece(KING, WHITE)) @@ (52 :> Piece(PAWN, WHITE)) @@
    (62 :> Piece(KING, BLACK)) @@ (9 :> Piece(PAWN, BLACK))

\* white: Kg1; black: Kg3, Qb8.  After Kg1-h1 black can mate with Qb8-b1
MatePieces ==
    (6 :> Piece(KING, WHITE)) @@
    (22 :> Piece(KING, BLACK)) @@ (57 :> Piece(QUEEN, BLACK))

\* white: Kc6, Ph2; black: Ka8.  After Kc6-c7 black has the one move Ka8-a7
OneMovePieces ==
    (42 :> Piece(KING, WHITE)) @@ (15 :> Piece(PAWN, WHITE)) @@
    (56 :> Piece(KING, BLACK))

\* white: Ke1, Rh1, Pe5; black: Ke8, Pd5 (just played d7-d5).  White may
\* castle king side or capture en passant on d6
CastlingPieces ==
    (4 :> Piece(KING, WHITE)) @@ (7 :> Piece(ROOK, WHITE)) @@
    (36 :> Piece(PAWN, WHITE)) @@
    (60 :> Piece(KING, BLACK)) @@ (35 :> Piece(PAWN, BLACK))

StartBoards ==
    { StartingBoard,
      Position(PromotionPieces, WHITE, {}, None, 0),
      Position(PromotionPieces, BLACK, {}, None, 0),
      Position(MatePieces, WHITE, {}, None, 0),
      Position(MatePieces, BLACK, {}, None, 0),
      Position(OneMovePieces, WHITE, {}, None, 0),
      Position(OneMovePieces, WHITE, {}, None, SeventyFiveMoveClock - 1),
      Position(CastlingPieces, WHITE, {7}, 43, 0) }

----------------------------------------------------------------------------
(* Inputs: window sizes of resize events and pixels the mouse is read at.   *)

\* the default window and a window lower than eight one-pixel squares
WindowSizes ==
    { <<DEFAULT_WINDOW_WIDTH, DEFAULT_WINDOW_HEIGHT>>, <<10, 5>> }

\* the middle pixel of the drawn square in column `file` and row `rank`
SquareCentre(file, rank) ==
    << BOARD_OFFSET_X + file * SQUARE_SIZE + (SQUARE_SIZE \div 2),
       BOARD_OFFSET_Y + rank * SQUARE_SIZE + (SQUARE_SIZE \div 2) >>

\* the middle pixel of the restart button
ButtonCentre ==
    << BOARD_OFFSET_X - BUTTON_MARGIN_X - (BUTTON_WIDTH \div 2),
       BOARD_OFFSET_Y + BUTTON_MARGIN_Y + (BUTTON_HEIGHT \div 2) >>

\* the first pixel right of the board and the last pixel above it
BesideBoard ==
    { << BOARD_OFFSET_X + BOARD_PIXEL_SIZE, BOARD_OFFSET_Y >>,
      << BOARD_OFFSET_X, BOARD_OFFSET_Y - 1 >> }

\* the pixels pygame.mouse.get_pos() reports in the model: every drawn
\* square, the restart button, and two pixels just outside the board
MousePositions ==
    { SquareCentre(f, r) : f \in 0 .. 7, r \in 0 .. 7 }
    \cup {ButtonCentre} \cup BesideBoard

----------------------------------------------------------------------------
(* The main loop.                                                           *)

Layout == <<SQUARE_SIZE, BOARD_PIXEL_SIZE, BOARD_OFFSET_X, BOARD_OFFSET_Y>>

SetLayout(l) ==
    /\ SQUARE_SIZE' = l.SQUARE_SIZE
    /\ BOARD_PIXEL_SIZE' = l.BOARD_PIXEL_SIZE
    /\ BOARD_OFFSET_X' = l.BOARD_OFFSET_X
    /\ BOARD_OFFSET_Y' = l.BOARD_OFFSET_Y

\* What the pixel of a click lies on, read off the state before the click:
\* the restart rectangle, elsewhere outside the board, the selected square,
\* a piece of the side to move, a piece of the other side, an empty square
ClickedKind(b, mouse_pos, sel) ==
    IF ~InBoardArea(mouse_pos)
    THEN IF collidepoint(get_restart_button_rect(BOARD_OFFSET_X, BOARD_OFFSET_Y),
                         mouse_pos)
         THEN "restart" ELSE "outside"
    ELSE LET clicked_square == ClickedSquare(mouse_pos)
         IN IF clicked_square = sel THEN "selected"
            ELSE IF ~HasPiece(b, clicked_square) THEN "empty"
            ELSE IF piece_at(b, clicked_square).color = b.turn THEN "own"
            ELSE "opponent"

\* The square of the piece of the side to move that a click passed to
\* handle_click lies on, other than the selected square, read off the state
\* before the click; None otherwise
ClickedPiece(b, mouse_pos, sel) ==
    IF ClickedKind(b, mouse_pos, sel) = "own" THEN ClickedSquare(mouse_pos)
    ELSE None

\* main(): the elif condition that lets a click reach handle_click, given
\* what board.is_game_over() returns
HumanMayClick(b, game_over) ==
    ~game_over /\ ~(BLACK_IS_AI /\ b.turn = BLACK)

\* the stub's condition without `not board.is_game_over()`; C5 fails on it
StubIgnoringGameOver(b) == BLACK_IS_AI /\ b.turn = BLACK

\* the stub's condition replaced by False; C9 fails on it
StubNeverMoves(b) == FALSE

\* the stub's condition without `board.turn == chess.BLACK`; C10 fails on it
StubIgnoringTurn(b) == BLACK_IS_AI /\ ~is_game_over(b)

\* main(): the condition of the opponent stub
StubMayMove(b) ==
    BLACK_IS_AI /\ b.turn = BLACK /\ ~is_game_over(b)

\* init_pygame() and the first lines of main(), at the start of a frame.  The
\* board is the standard position or a position of a game in progress; with
\* BLACK_IS_AI set a frame starts with white to move, and the standard
\* position is explored under the shipped setting BLACK_IS_AI = True.
Init ==
    /\ board \in StartBoards
    /\ BLACK_IS_AI \in BOOLEAN
    /\ (BLACK_IS_AI => board.turn = WHITE)
    /\ (board = StartingBoard => BLACK_IS_AI)
    /\ selected_square = None
    /\ legal_targets = <<>>
    /\ LET l == update_layout(DEFAULT_WINDOW_WIDTH, DEFAULT_WINDOW_HEIGHT)
       IN /\ SQUARE_SIZE = l.SQUARE_SIZE
          /\ BOARD_PIXEL_SIZE = l.BOARD_PIXEL_SIZE
          /\ BOARD_OFFSET_X = l.BOARD_OFFSET_X
          /\ BOARD_OFFSET_Y = l.BOARD_OFFSET_Y
    /\ pc = "events"
    /\ last_op = "none"
    /\ clicked = "none"
    /\ human_moves = 0
    /\ ai_moves = 0
    /\ played = 0
    /\ clicked_piece = None
    /\ aimed = FALSE
    /\ fn_input = [op |-> "main"]
    /\ fn_output = <<>>

\* event.type == pygame.VIDEORESIZE
VideoResize(w, h) ==
    /\ pc = "events"
    /\ played <= MaxPlayed
    /\ SetLayout(update_layout(w, h))
    /\ last_op' = "none"
    /\ clicked' = "none"
    /\ clicked_piece' = None
    /\ aimed' = FALSE
    /\ UNCHANGED <<board, selected_square, legal_targets, BLACK_IS_AI, pc,
                   human_moves, ai_moves, played, fn_input, fn_output>>

\* MOUSEBUTTONDOWN with button 1, the restart branch
ClickRestart ==
    /\ LET r == reset_game(board)
       IN /\ board' = r.board
          /\ selected_square' = r.selected_square
          /\ legal_targets' = r.legal_targets
    /\ last_op' = "restart"
    /\ clicked_piece' = None
    /\ aimed' = FALSE
    /\ UNCHANGED <<human_moves, played>>

\* MOUSEBUTTONDOWN with button 1, the handle_click branch
ClickBoard(mouse_pos) ==
    /\ played < MaxPlayed
    /\ LET r == handle_click(board, mouse_pos, selected_square)
       IN /\ board' = r.board
          /\ selected_square' = r.selected_square
          /\ legal_targets' = r.legal_targets
          /\ human_moves' = human_moves + (IF r.move_made THEN 1 ELSE 0)
          /\ played' = played + (IF r.move_made THEN 1 ELSE 0)
    /\ last_op' = "click"
    /\ clicked_piece' = ClickedPiece(board, mouse_pos, selected_square)
    /\ aimed' = (/\ selected_square # None
                 /\ ClickedKind(board, mouse_pos, selected_square)
                       \in {"empty", "opponent"})

\* MOUSEBUTTONDOWN with button 1, neither branch taken
ClickIgnored ==
    /\ last_op' = "ignored"
    /\ clicked_piece' = None
    /\ aimed' = FALSE
    /\ UNCHANGED <<board, selected_square, legal_targets, human_moves, played>>

\* event.type == pygame.MOUSEBUTTONDOWN and event.button == 1, with the pixel
\* pygame.mouse.get_pos() reports and what board.is_game_over() returns
MouseButtonDown(mouse_pos, game_over) ==
    /\ pc = "events"
    /\ played <= MaxPlayed
    /\ IF check_restart_button_click(mouse_pos, game_over) THEN ClickRestart
       ELSE IF HumanMayClick(board, game_over) THEN ClickBoard(mouse_pos)
       ELSE ClickIgnored
    /\ clicked' = ClickedKind(board, mouse_pos, selected_square)
    /\ UNCHANGED <<Layout, BLACK_IS_AI, pc, ai_moves, fn_input, fn_output>>

\* the for loop over pygame.event.get() ends
EndEvents ==
    /\ pc = "events"
    /\ played <= MaxPlayed
    /\ pc' = "ai"
    /\ last_op' = "none"
    /\ clicked' = "none"
    /\ clicked_piece' = None
    /\ aimed' = FALSE
    /\ UNCHANGED <<board, selected_square, legal_targets, Layout, BLACK_IS_AI,
                   human_moves, ai_moves, played, fn_input, fn_output>>

\* the opponent stub: random.choice(list(board.legal_moves)) for black
OpponentStub ==
    /\ pc = "ai"
    /\ pc' = "render"
    /\ LET legal == IF StubMayMove(board) THEN legal_moves(board) ELSE {}
       IN IF legal # {}
          THEN \E ai_move \in legal :
                  /\ board' = push(board, ai_move)
                  /\ selected_square' = None
                  /\ legal_targets' = <<>>
                  /\ ai_moves' = ai_moves + 1
                  /\ played' = played + 1
                  /\ last_op' = "ai_move"
          ELSE /\ last_op' = "none"
               /\ UNCHANGED <<board, selected_square, legal_targets, ai_moves,
                              played>>
    /\ UNCHANGED <<Layout, BLACK_IS_AI, clicked, clicked_piece, aimed,
                   human_moves, fn_input, fn_output>>

\* draw_board, draw_game_over_prompt, flip and clock.tick: the frame ends
Render ==
    /\ pc = "render"
    /\ played <= MaxPlayed
    /\ pc' = "events"
    /\ human_moves' = 0
    /\ ai_moves' = 0
    /\ last_op' = "none"
    /\ UNCHANGED <<board, selected_square, legal_targets, Layout, BLACK_IS_AI,
                   clicked, clicked_piece, aimed, played, fn_input,
                   fn_output>>

\* One frame of the while loop: events in any number and order, then the
\* opponent stub, then the rendering.  QUIT and the escape key only end the
\* loop after the frame and touch none of this state; they are left out.
Next ==
    \/ \E size \in WindowSizes : VideoResize(size[1], size[2])
    \/ LET game_over == is_game_over(board)
       IN \E mouse_pos \in MousePositions : MouseButtonDown(mouse_pos, game_over)
    \/ EndEvents
    \/ OpponentStub
    \/ Render

Spec == Init /\ [][Next]_vars

----------------------------------------------------------------------------
(* Properties of clicks outside the board, of the restart control and of   *)
(* the game-over state.                                                     *)

\* C1: a click outside the board area that reaches handle_click (a human
\* turn, the game not over) changes neither the board nor selected_square
\* nor legal_targets.
C1_OutsideClickChangesNothing ==
    [][(last_op' = "click" /\ clicked' \in {"outside", "restart"})
          => /\ board' = board
             /\ selected_square' = selected_square
             /\ legal_targets' = legal_targets]_vars

\* C2: after a move is pushed, by handle_click or by the opponent stub,
\* selected_square is None and legal_targets is empty.
C2_IdleAfterAnyMove ==
    [][(human_moves' = human_moves + 1 \/ ai_moves' = ai_moves + 1)
          => (selected_square' = None /\ legal_targets' = <<>>)]_vars

\* the stub has answered a human move of the same frame
C2_Witness ==
    /\ last_op = "ai_move"
    /\ human_moves = 1 /\ ai_moves = 1
    /\ selected_square = None /\ legal_targets = <<>>

\* C3: while the game is not over, a click inside the restart rectangle
\* changes neither the board nor selected_square nor legal_targets.
C3_RestartRectangleInertUnlessOver ==
    [][(clicked' = "restart" /\ ~is_game_over(board))
          => /\ board' = board
             /\ selected_square' = selected_square
             /\ legal_targets' = legal_targets]_vars

\* C4: when the game is over, a click inside the restart rectangle resets
\* the board to the standard position (white to move, not over), clears the
\* selection, and is not handled by handle_click as well.
C4_RestartResets ==
    [][(clicked' = "restart" /\ is_game_over(board))
          => /\ board' = StartingBoard
             /\ board'.turn = WHITE
             /\ ~is_game_over(board')
             /\ selected_square' = None
             /\ legal_targets' = <<>>
             /\ last_op' = "restart"
             /\ human_moves' = human_moves]_vars

\* a finished game has been restarted
C4_Witness ==
    /\ last_op = "restart" /\ clicked = "restart"
    /\ played > 0
    /\ board = StartingBoard
    /\ selected_square = None

\* C5: from a state whose game is over, no step changes the board except a
\* click inside the restart rectangle.
C5_BoardFrozenWhenOver ==
    [][board' = board \/ clicked' = "restart" \/ ~is_game_over(board)]_vars

\* in a frame after the one that ended the game, a click elsewhere than on
\* the restart rectangle was dropped
C5_Witness ==
    /\ last_op = "ignored" /\ clicked # "restart"
    /\ human_moves = 0 /\ played > 0
    /\ is_game_over(board)

----------------------------------------------------------------------------
(* Properties of the moves pushed by handle_click and by the opponent stub. *)

C7_ClickPromotesToQueen ==
    [][(/\ last_op' = "click"
        /\ human_moves' = human_moves + 1
        /\ piece_at(board, selected_square).piece_type = PAWN)
          => \A t \in SQUARES :
                (/\ square_rank(t) = PromotionRank(board.turn)
                 /\ HasPiece(board', t)
                 /\ piece_at(board', t).color = board.turn
                 /\ ~(HasPiece(board, t) /\ piece_at(board, t).color = board.turn))
                   => piece_at(board', t) = Piece(QUEEN, board.turn)]_vars

\* the white pawn on e7 was sent to e8 by a click and a white queen stands
\* there
C7_Witness ==
    /\ last_op = "click" /\ human_moves = 1 /\ played = 1
    /\ ~HasPiece(board, 52)
    /\ HasPiece(board, 60)
    /\ piece_at(board, 60) = Piece(QUEEN, WHITE)

\* C8: with nothing selected, a click handled by handle_click on an empty
\* square or on a piece of the side not to move leaves selected_square None,
\* legal_targets empty and the board unchanged.
C8_IdleStaysIdleOffOwnPieces ==
    [][(/\ last_op' = "click"
        /\ selected_square = None
        /\ clicked' \in {"empty", "opponent"})
          => /\ selected_square' = None
             /\ legal_targets' = <<>>
             /\ board' = board]_vars

\* a piece of the side not to move was clicked with nothing selected
C8_Witness ==
    /\ last_op = "click" /\ clicked = "opponent"
    /\ human_moves = 0
    /\ selected_square = None /\ legal_targets = <<>>

\* C9: with BLACK_IS_AI set, when a white move by click has left black to
\* move in a game that is not over, the stub pushes one move in that frame, a
\* member of the board's legal moves, after which white is to move; and no
\* step of the event batch pushes a stub move or, with black to move, changes
\* the board other than by a restart.
C9_OneLegalReplyPerFrame ==
    [][/\ (/\ pc = "ai" /\ pc' = "render"
           /\ BLACK_IS_AI /\ human_moves > 0
           /\ board.turn = BLACK /\ ~is_game_over(board))
             => /\ ai_moves = 0 /\ ai_moves' = 1
                /\ \E m \in legal_moves(board) : board' = push(board, m)
                /\ board'.turn = WHITE
       /\ (pc = "events" /\ pc' = "events")
             => /\ ai_moves' = ai_moves
                /\ (BLACK_IS_AI /\ board.turn = BLACK)
                      => (board' = board \/ last_op' = "restart")
       /\ (pc = "render" /\ pc' = "events") => ai_moves <= 1]_vars

\* the stub has answered white's move made by click and white is to move
\* again when the frame is drawn
C9_Witness ==
    /\ BLACK_IS_AI
    /\ pc = "render" /\ last_op = "ai_move"
    /\ human_moves = 1 /\ ai_moves = 1
    /\ board.turn = WHITE

\* C10: the stub pushes a move only when BLACK_IS_AI is set, black is to
\* move and the game is not over; handle_click pushes no move while
\* BLACK_IS_AI is set and black is to move, and is not called then.
C10_HumanAndStubNeverShareATurn ==
    [][/\ ai_moves' = ai_moves + 1
             => (BLACK_IS_AI /\ board.turn = BLACK /\ ~is_game_over(board))
       /\ (last_op' = "click" \/ human_moves' = human_moves + 1)
             => ~(BLACK_IS_AI /\ board.turn = BLACK)]_vars

\* a click was dropped because black, played by the stub, was to move after
\* white's click
C10_Witness ==
    /\ BLACK_IS_AI /\ board.turn = BLACK
    /\ last_op = "ignored"
    /\ human_moves = 1
    /\ ~is_game_over(board)

----------------------------------------------------------------------------
(* The layout and coordinate functions applied on their own: one call per  *)
(* behaviour, its arguments drawn by the initial state.                     *)

ProbeHeights == (1 .. MaxHeight) \cup {DEFAULT_WINDOW_HEIGHT}

ProbeWidths == (0 .. MaxWidth) \cup {DEFAULT_WINDOW_WIDTH}

\* the pixels tried along one axis, by index: the last pixel before the
\* board, the first and the last pixel of each of the eight rows or columns,
\* and the first pixel after the board
GridIndex == 0 .. (2 * BOARD_SIZE + 1)

GridCoord(offset, k) ==
    IF k = 0 THEN offset - 1
    ELSE IF k = 2 * BOARD_SIZE + 1 THEN offset + BOARD_PIXEL_SIZE
    ELSE offset + ((k - 1) \div 2) * SQUARE_SIZE
                + (IF (k - 1) % 2 = 0 THEN 0 ELSE SQUARE_SIZE - 1)

\* the row or column of the drawn grid the pixel of index k lies in
GridCell(k) == (k - 1) \div 2

\* the pixel handle_click is given by the call fn_input, under the layout
\* in force
ProbePixel ==
    << GridCoord(BOARD_OFFSET_X, fn_input.i), GridCoord(BOARD_OFFSET_Y, fn_input.j) >>

FnInputs ==
    { [op |-> "update_layout", w |-> w, h |-> h] :
         w \in ProbeWidths, h \in ProbeHeights }
    \cup { [op |-> "handle_click", w |-> w, h |-> h, i |-> i, j |-> j] :
              w \in ProbeWidths, h \in ProbeHeights,
              i \in GridIndex, j \in GridIndex }
    \cup { [op |-> "square_to_coord", sq |-> sq] : sq \in SQUARES }
    \cup { [op |-> "coord_to_square", file |-> f, rank |-> r] :
              f \in 0 .. 7, r \in 0 .. 7 }

\* the module as imported (the layout globals of lines 26 to 29) and the
\* call to make
FnInit ==
    /\ fn_input \in FnInputs
    /\ fn_output = <<>>
    /\ pc = "call"
    /\ SQUARE_SIZE = 80
    /\ BOARD_PIXEL_SIZE = 8 * 80
    /\ BOARD_OFFSET_X = 0
    /\ BOARD_OFFSET_Y = 0
    /\ board = StartingBoard
    /\ BLACK_IS_AI = TRUE
    /\ selected_square = None
    /\ legal_targets = <<>>
    /\ last_op = "none"
    /\ clicked = "none"
    /\ clicked_piece = None
    /\ aimed = FALSE
    /\ human_moves = 0
    /\ ai_moves = 0
    /\ played = 0

\* update_layout(w, h), on its own or ahead of a handle_click call
CallUpdateLayout ==
    /\ pc = "call"
    /\ fn_input.op \in {"update_layout", "handle_click"}
    /\ SetLayout(update_layout(fn_input.w, fn_input.h))
    /\ pc' = IF fn_input.op = "update_layout" THEN "returned" ELSE "laid_out"
    /\ UNCHANGED <<board, selected_square, legal_targets, BLACK_IS_AI, last_op,
                   clicked, clicked_piece, aimed, human_moves, ai_moves,
                   played, fn_input, fn_output>>

\* handle_click, lines 305 to 316: the bounds test, then file, rank and
\* clicked_square of a pixel that passes it
CallPixelMapping ==
    /\ pc = "laid_out"
    /\ fn_input.op = "handle_click"
    /\ fn_output' =
          IF InBoardArea(ProbePixel)
          THEN << (ProbePixel[1] - BOARD_OFFSET_X) \div SQUARE_SIZE,
                  (ProbePixel[2] - BOARD_OFFSET_Y) \div SQUARE_SIZE,
                  ClickedSquare(ProbePixel) >>
          ELSE <<>>
    /\ pc' = "returned"
    /\ UNCHANGED <<board, selected_square, legal_targets, Layout, BLACK_IS_AI,
                   last_op, clicked, clicked_piece, aimed, human_moves,
                   ai_moves, played, fn_input>>

\* square_to_coord(sq)
CallSquareToCoord ==
    /\ pc = "call"
    /\ fn_input.op = "square_to_coord"
    /\ fn_output' = square_to_coord(fn_input.sq)
    /\ pc' = "returned"
    /\ UNCHANGED <<board, selected_square, legal_targets, Layout, BLACK_IS_AI,
                   last_op, clicked, clicked_piece, aimed, human_moves,
                   ai_moves, played, fn_input>>

\* coord_to_square(file, rank)
CallCoordToSquare ==
    /\ pc = "call"
    /\ fn_input.op = "coord_to_square"
    /\ fn_output' = <<coord_to_square(fn_input.file, fn_input.rank)>>
    /\ pc' = "returned"
    /\ UNCHANGED <<board, selected_square, legal_targets, Layout, BLACK_IS_AI,
                   last_op, clicked, clicked_piece, aimed, human_moves,
                   ai_moves, played, fn_input>>

FnNext ==
    \/ CallUpdateLayout
    \/ CallPixelMapping
    \/ CallSquareToCoord
    \/ CallCoordToSquare

FnSpec == FnInit /\ [][FnNext]_vars

----------------------------------------------------------------------------
(* Properties of the coordinate mapping and of the layout.                  *)

\* C11: square_to_coord(s) is (file of s, 7 - rank of s), inside 0..7 x 0..7,
\* and coord_to_square takes it back to s; coord_to_square(file, rank) is a
\* square of 0..63 with that file and rank 7 - rank, and square_to_coord takes
\* it back to (file, rank).
C11_CoordRoundTrip ==
    pc = "returned" =>
       /\ fn_input.op = "square_to_coord" =>
             /\ fn_output \in (0 .. 7) \X (0 .. 7)
             /\ fn_output = <<fn_input.sq % 8, 7 - (fn_input.sq \div 8)>>
             /\ coord_to_square(fn_output[1], fn_output[2]) = fn_input.sq
       /\ fn_input.op = "coord_to_square" =>
             /\ fn_output[1] \in 0 .. 63
             /\ fn_output[1] % 8 = fn_input.file
             /\ fn_output[1] \div 8 = 7 - fn_input.rank
             /\ square_to_coord(fn_output[1]) = <<fn_input.file, fn_input.rank>>

\* square_to_coord has put a1 in the bottom-left corner of the screen
C11_Witness ==
    /\ pc = "returned"
    /\ fn_input = [op |-> "square_to_coord", sq |-> 0]
    /\ fn_output = <<0, 7>>

\* C12: after update_layout(w, h) with h > 0, BOARD_PIXEL_SIZE is a multiple
\* of 8, at least 8 and at most h * 0.9 + 8 (times ten: 9 * h + 80), and
\* SQUARE_SIZE is at least 1.
C12_LayoutNumerics ==
    (/\ fn_input.op \in {"update_layout", "handle_click"}
     /\ pc \in {"laid_out", "returned"}
     /\ fn_input.h > 0)
       => /\ BOARD_PIXEL_SIZE % 8 = 0
          /\ BOARD_PIXEL_SIZE >= 8
          /\ 10 * BOARD_PIXEL_SIZE <= 9 * fn_input.h + 80
          /\ SQUARE_SIZE >= 1

\* a window one pixel high got squares of one pixel
C12_Witness ==
    /\ pc = "returned"
    /\ fn_input = [op |-> "update_layout", w |-> 0, h |-> 1]
    /\ SQUARE_SIZE = 1
    /\ BOARD_PIXEL_SIZE = 8

\* C19: under every layout update_layout produces, a pixel is mapped by
\* handle_click exactly when it lies on the drawn grid, and then file and rank
\* are the column and the row of the grid it lies in, both in 0..7, and
\* clicked_square is the square of 0..63 with that file on rank 7 - row, so
\* that the 64 drawn squares get 64 different indices.
C19_PixelMapsToItsSquare ==
    (pc = "returned" /\ fn_input.op = "handle_click")
       => /\ fn_output # <<>>
             <=> /\ BOARD_OFFSET_X <= ProbePixel[1]
                 /\ ProbePixel[1] < BOARD_OFFSET_X + BOARD_PIXEL_SIZE
                 /\ BOARD_OFFSET_Y <= ProbePixel[2]
                 /\ ProbePixel[2] < BOARD_OFFSET_Y + BOARD_PIXEL_SIZE
          /\ fn_output # <<>>
             => /\ fn_output[1] \in 0 .. 7
                /\ fn_output[2] \in 0 .. 7
                /\ fn_output[3] \in 0 .. 63
                /\ fn_output[1] = GridCell(fn_input.i)
                /\ fn_output[2] = GridCell(fn_input.j)
                /\ fn_output[3] = 8 * (7 - GridCell(fn_input.j)) + GridCell(fn_input.i)

\* with the board starting left of the window, the last pixel of the
\* bottom-right drawn square was mapped to h1
C19_Witness ==
    /\ pc = "returned"
    /\ fn_input.op = "handle_click"
    /\ BOARD_OFFSET_X < 0 /\ BOARD_OFFSET_Y < 0
    /\ fn_input.i = 2 * BOARD_SIZE /\ fn_input.j = 2 * BOARD_SIZE
    /\ fn_output = <<7, 7, 7>>

----------------------------------------------------------------------------
(* Properties of the selection.                                             *)

\* C13: when a click puts the selection on a square it was not on, from an
\* empty selection or from another square, that square holds a piece of the
\* side to move at that moment, the board being as before the click.
C13_SelectionEntersOnOwnPiece ==
    [][(/\ last_op' = "click"
        /\ selected_square' # None
        /\ selected_square' # selected_square)
          => /\ board' = board
             /\ HasPiece(board, selected_square')
             /\ piece_at(board, selected_square').color = board.turn]_vars

\* a click has put the selection on the piece clicked
C13_Witness ==
    /\ last_op = "click" /\ clicked = "own"
    /\ selected_square # None
    /\ selected_square = clicked_piece
    /\ piece_at(board, selected_square).color = board.turn

\* C14: with nothing selected, a click handled by handle_click on a piece of
\* the side to move selects the square clicked, makes legal_targets, as a set,
\* the destinations of the board's legal moves from that square (the moves
\* of legal_moves with that from_square are those of LegalMovesFrom), and
\* leaves the board unchanged.
C14_SelectShowsLegalDestinations ==
    [][(/\ last_op' = "click"
        /\ selected_square = None
        /\ clicked' = "own")
          => /\ selected_square' = clicked_piece'
             /\ board' = board
             /\ Range(legal_targets')
                   = { m.to_square :
                          m \in Range(LegalMovesFrom(board, clicked_piece')) }]_vars

\* white's only piece, the king on g1, was clicked and is selected with its
\* two legal destinations h1 and f1
C14_Witness ==
    /\ last_op = "click" /\ clicked = "own"
    /\ board.pieces = MatePieces /\ board.turn = WHITE
    /\ selected_square = 6
    /\ legal_targets = <<7, 5>>

\* C15: with a square selected, a click handled by handle_click on another
\* square whose candidate move is not legal makes no move and leaves the
\* board unchanged; on a piece of the side to move it selects that square
\* with the destinations of its legal moves, and on an empty square or a
\* piece of the other side it clears the selection and the targets.
C15_IllegalTargetReselectsOrClears ==
    [][(last_op' = "click" /\ selected_square # None)
          => /\ (/\ clicked' = "own"
                 /\ ~is_legal(board, CandidateMove(board, selected_square,
                                                   clicked_piece')))
                   => /\ board' = board
                      /\ human_moves' = human_moves
                      /\ selected_square' = clicked_piece'
                      /\ Range(legal_targets')
                            = { m.to_square :
                                  m \in Range(LegalMovesFrom(board,
                                                             clicked_piece')) }
             /\ (aimed' /\ human_moves' = human_moves)
                   => /\ board' = board
                      /\ selected_square' = None
                      /\ legal_targets' = <<>>]_vars

\* with a square selected, an empty square or a piece of the other side was
\* clicked, no move was made and the selection is cleared
C15_Witness ==
    /\ last_op = "click" /\ aimed
    /\ clicked \in {"empty", "opponent"}
    /\ human_moves = 0
    /\ selected_square = None /\ legal_targets = <<>>

\* C16: with a square selected, a click handled by handle_click on that
\* square clears the selection and the targets and leaves the board
\* unchanged, whether or not the piece has a legal move; a second click on
\* the same square selects it again.
C16_ClickOnSelectionToggles ==
    [][(last_op' = "click" /\ clicked' = "selected")
          => /\ board' = board
             /\ selected_square' = None
             /\ legal_targets' = <<>>
             /\ LET c == square_to_coord(selected_square)
                    r == handle_click(board', SquareCentre(c[1], c[2]),
                                      selected_square')
                IN /\ r.selected_square = selected_square
                   /\ r.board = board]_vars

\* the selected king on g1, which has legal moves, was clicked and is no
\* longer selected
C16_Witness ==
    /\ last_op = "click" /\ clicked = "selected"
    /\ board.pieces = MatePieces /\ board.turn = WHITE
    /\ selected_square = None /\ legal_targets = <<>>

\* C17: in every reachable state legal_targets agrees with the selection:
\* with a square selected it holds, as a set, the destinations of the board's
\* legal moves from that square, and with nothing selected it is empty; and
\* every move handle_click pushes is the move from the selected square to a
\* square that legal_targets held when the click arrived.
C17_TargetsMatchSelection ==
    /\ [](IF selected_square = None THEN legal_targets = <<>>
          ELSE Range(legal_targets)
                 = { m.to_square :
                       m \in Range(LegalMovesFrom(board, selected_square)) })
    /\ [][(last_op' = "click" /\ human_moves' = human_moves + 1)
            => \E sq \in Range(legal_targets) :
                  board' = push(board,
                                CandidateMove(board, selected_square, sq))]_vars

\* C18: when a frame reaches its rendering, after the events and the
\* opponent stub, a selected square means that the game is not over, that
\* the side to move is played by a human, and that the square holds a piece
\* of the side to move.
C18_SelectionNeverStale ==
    (pc = "render" /\ selected_square # None)
       => /\ ~is_game_over(board)
          /\ ~(BLACK_IS_AI /\ board.turn = BLACK)
          /\ HasPiece(board, selected_square)
          /\ piece_at(board, selected_square).color = board.turn

\* a frame is rendered with white's king on g1 selected, white played by a
\* human and to move against black's king and queen
C18_Witness ==
    /\ pc = "render"
    /\ selected_square = 6
    /\ board.pieces = MatePieces /\ board.turn = WHITE
    /\ ~is_game_over(board)

====
